---- MODULE Spec2Model ----
(***************************************************************************)
(* cdn-latency-tester: the configuration (LoadConfig, parseProtocol), the   *)
(* client constructors, the round scheduler (main, runParallelRound), the  *)
(* statistics aggregator (percentile, calculateSummary), the probe         *)
(* (measureRequest), the dial functions of the transports, the log lines   *)
(* of a round and the summary reports (printSummaryTable, the HTML summary *)
(* table, ExportJSON).                                                     *)
(*                                                                         *)
(* Numbers.  A time.Duration is an integer number of nanoseconds.  A       *)
(* float64 holding milliseconds is represented in fixed point as an        *)
(* integer number of microseconds (three decimals of a millisecond), which *)
(* is the resolution the code itself reduces a TTFB to                     *)
(* (float64(d.Microseconds())/1000.0).  A percentile fraction p is         *)
(* represented by the integer 100*p.                                       *)
(***************************************************************************)
EXTENDS Integers, Sequences, FiniteSets, TLC

VARIABLES
    yc,               \* yamlConfig read from the file: endpoints, test_count
    config,           \* *Config returned by LoadConfig: Endpoints, TestCount
    pc,               \* position of main
    clients,          \* []EndpointClient built by main
    endpointResults,  \* map[string][]RequestResult of main
    round,            \* loop variable of main's round loop
    tasks,            \* []RequestTask of the current round
    launched,         \* number of goroutines runParallelRound has started
    wg,               \* counter of the sync.WaitGroup of runParallelRound
    goroutines,       \* the worker goroutines that have not finished yet
    results,          \* results[r]: the []EndpointResult allocated by call r
    allSummaries,     \* []Summary of main
    sleeps,           \* number of calls of time.Sleep main has made
    log,              \* what has been written to the global logger
    pValues,          \* argument `values` of a call of percentile
    pOut,             \* what that call computed
    sSamples,         \* argument `results` of a call of calculateSummary
    sOut,             \* what that call returned
    sAgain,           \* what a second call on the same slice returned
    mNets,            \* what the network does to each probe of one endpoint
    mResults,         \* the RequestResults measureRequest returned so far
    mSummary,         \* the Summary calculateSummary made of them
    mReport,          \* the summary as the reports present it
    dClient,          \* a transport handle
    dDomain,          \* the virtual hostname of the requests sent through it
    dDials,           \* the dials its transport has made, in order
    dSockets          \* the local UDP sockets those dials have opened

vars == <<yc, config, pc, clients, endpointResults, round, tasks, launched, wg,
          goroutines, results, allSummaries, sleeps, log, pValues, pOut, sSamples, sOut,
          sAgain,
          mNets, mResults, mSummary, mReport, dClient, dDomain, dDials,
          dSockets>>

schedVars == <<yc, config, pc, clients, endpointResults, round, tasks, launched,
               wg, goroutines, results, allSummaries, sleeps, log>>

----------------------------------------------------------------------------
(* Bounds of the model *)

MaxRounds == 3
MaxWideRounds == 1
MaxLen == 4
MaxVal == 3
MaxSamples == 3
MaxProbes == 2
MaxDials == 2

----------------------------------------------------------------------------
(* config.go: Protocol and Endpoint *)

HTTP1 == 0
HTTP2 == 1
HTTP3 == 2

ProtocolString(p) ==
    CASE p = HTTP1 -> "HTTP/1.1"
      [] p = HTTP2 -> "HTTP/2"
      [] p = HTTP3 -> "HTTP/3"
      [] OTHER -> "Unknown"

Endpoint(name, ip, protocol) == [Name |-> name, IP |-> ip, Protocol |-> protocol]

\* An element of yamlConfig.Endpoints: the protocol is the text of the file
YamlEndpoint(name, ip, protocol) ==
    [Name |-> name, IP |-> ip, Protocol |-> protocol]

parseProtocol(s) ==
    CASE s \in {"HTTP/3", "http3", "h3"} -> HTTP3
      [] s \in {"HTTP/2", "http2", "h2"} -> HTTP2
      [] OTHER -> HTTP1

\* LoadConfig: the endpoints converted one by one, test_count copied
LoadConfig(y) ==
    [Endpoints |-> [i \in DOMAIN y.Endpoints |->
                        Endpoint(y.Endpoints[i].Name, y.Endpoints[i].IP,
                                 parseProtocol(y.Endpoints[i].Protocol))],
     TestCount |-> y.TestCount]

----------------------------------------------------------------------------
(* report.go: percentile *)

\* sort.Float64s(s): the values in ascending order (no NaN among them).  The
\* element s[i] goes to the place given by the number of elements below it
\* and of its equals up to position i.
SortFloat64s(s) ==
    LET rank == [i \in DOMAIN s |->
                    Cardinality({j \in DOMAIN s :
                                    s[j] < s[i] \/ (s[j] = s[i] /\ j <= i)})]
        place == [k \in DOMAIN s |-> CHOOSE i \in DOMAIN s : rank[i] = k]
    IN  [k \in DOMAIN s |-> s[place[k]]]

Unsorted(s) == s

\* sorted := make(...); copy(sorted, values); sort.Float64s(sorted)
SortedCopy(values) == SortFloat64s(values)

PercentileIndexRounded(n, p) == ((n - 1) * p + 50) \div 100

\* index := int(float64(len(sorted)-1) * p), for a list of n values.  The
\* float64 product truncated by int() equals the exact floor for p in
\* {0, 0.50, 0.90, 0.95, 0.99, 1} and every n up to 200000.
PercentileIndex(n, p) == ((n - 1) * p) \div 100

\* The call's outcome: the value returned, and the index computed at line 24
\* when the call got that far (Go slices are zero-based, sequences one-based).
percentileCall(values, p) ==
    IF Len(values) = 0
    THEN [v |-> 0, indexed |-> FALSE, index |-> 0]
    ELSE CHOOSE c \in {[v |-> sorted[PercentileIndex(Len(sorted), p) + 1],
                        indexed |-> TRUE,
                        index |-> PercentileIndex(Len(sorted), p)] :
                            sorted \in {SortedCopy(values)}} : TRUE

percentile(values, p) == percentileCall(values, p).v

----------------------------------------------------------------------------
(* model.go: RequestResult and Summary *)

RequestResult(index, ttfb, xrt, cdn, status, reused, proto, err) ==
    [Index |-> index, TTFB |-> ttfb, XResponseTime |-> xrt, CDNLatency |-> cdn,
     StatusCode |-> status, Reused |-> reused, ActualProto |-> proto,
     Error |-> err]

\* The zero value RequestResult{}
ZeroResult == RequestResult(0, 0, 0, 0, 0, FALSE, "", "")

\* Summary{EndpointName: ..., Protocol: ..., TotalTests: ...}: the other fields
\* have their zero values
SummaryLiteral(name, protocol, total) ==
    [EndpointName |-> name, Protocol |-> protocol, TotalTests |-> total,
     SuccessCount |-> 0, FailCount |-> 0, HasCDN |-> FALSE,
     TTFBAvg |-> 0, TTFBMin |-> 0, TTFBMax |-> 0,
     TTFBP50 |-> 0, TTFBP90 |-> 0, TTFBP95 |-> 0, TTFBP99 |-> 0,
     CDNLatencyAvg |-> 0, CDNLatencyMin |-> 0, CDNLatencyMax |-> 0,
     CDNLatencyP50 |-> 0, CDNLatencyP90 |-> 0, CDNLatencyP95 |-> 0,
     CDNLatencyP99 |-> 0, XResponseTimeAvg |-> 0]

----------------------------------------------------------------------------
(* report.go: calculateSummary *)

\* float64(d.Microseconds()) / 1000.0: the duration cut to whole microseconds
TtfbMs(d) == d \div 1000

\* sum / float64(n), n > 0, to the fixed-point resolution
FloatDiv(sum, n) == sum \div n

\* The local variables of calculateSummary before its first loop
LoopInit ==
    [FailCount |-> 0, SuccessCount |-> 0, ttfbValues |-> <<>>,
     cdnLatencyValues |-> <<>>, xResponseTimeSum |-> 0,
     hasXResponseTime |-> FALSE]

\* The loop body with the failed samples taken for successful ones
LoopBodyNoContinue(acc, r) ==
    [acc EXCEPT
        !.FailCount = IF r.Error # "" THEN @ + 1 ELSE @,
        !.SuccessCount = @ + 1,
        !.ttfbValues = Append(@, TtfbMs(r.TTFB)),
        !.cdnLatencyValues = Append(@, r.CDNLatency),
        !.xResponseTimeSum = @ + r.XResponseTime,
        !.hasXResponseTime = @ \/ r.XResponseTime > 0]

\* The loop body with the flag raised by any origin time, zero as well
LoopBodyAnyXResponseTime(acc, r) ==
    IF r.Error # ""
    THEN [acc EXCEPT !.FailCount = @ + 1]
    ELSE [acc EXCEPT
            !.SuccessCount = @ + 1,
            !.ttfbValues = Append(@, TtfbMs(r.TTFB)),
            !.cdnLatencyValues = Append(@, r.CDNLatency),
            !.xResponseTimeSum = @ + r.XResponseTime,
            !.hasXResponseTime = TRUE]

\* The loop body without the failure count
LoopBodyNoFailCount(acc, r) ==
    IF r.Error # ""
    THEN acc
    ELSE [acc EXCEPT
            !.SuccessCount = @ + 1,
            !.ttfbValues = Append(@, TtfbMs(r.TTFB)),
            !.cdnLatencyValues = Append(@, r.CDNLatency),
            !.xResponseTimeSum = @ + r.XResponseTime,
            !.hasXResponseTime = @ \/ r.XResponseTime > 0]

\* for _, r := range results { ... }: one iteration
LoopBody(acc, r) ==
    IF r.Error # ""
    THEN [acc EXCEPT !.FailCount = @ + 1]
    ELSE [acc EXCEPT
            !.SuccessCount = @ + 1,
            !.ttfbValues = Append(@, TtfbMs(r.TTFB)),
            !.cdnLatencyValues = Append(@, r.CDNLatency),
            !.xResponseTimeSum = @ + r.XResponseTime,
            !.hasXResponseTime = @ \/ r.XResponseTime > 0]

RECURSIVE Loop(_, _)
Loop(rs, acc) ==
    IF rs = <<>> THEN acc ELSE Loop(Tail(rs), LoopBody(acc, Head(rs)))

\* The min, max and sum loops over a non-empty list, started from values[0]
RECURSIVE MinLoop(_, _)
MinLoop(values, m) ==
    IF values = <<>> THEN m
    ELSE MinLoop(Tail(values), IF Head(values) < m THEN Head(values) ELSE m)

RECURSIVE MaxLoop(_, _)
MaxLoop(values, m) ==
    IF values = <<>> THEN m
    ELSE MaxLoop(Tail(values), IF Head(values) > m THEN Head(values) ELSE m)

RECURSIVE SumLoop(_)
SumLoop(values) ==
    IF values = <<>> THEN 0 ELSE Head(values) + SumLoop(Tail(values))

\* calculateSummary after its first loop, `acc` being the loop's outcome
calculateSummaryFrom(endpoint, rs, acc) ==
    LET summary == SummaryLiteral(endpoint.Name,
                                  ProtocolString(endpoint.Protocol), Len(rs))
        counted == [summary EXCEPT !.FailCount = acc.FailCount,
                                   !.SuccessCount = acc.SuccessCount]
        ttfbValues == acc.ttfbValues
        cdnLatencyValues == acc.cdnLatencyValues
    IN  IF Len(ttfbValues) = 0
        THEN counted
        ELSE [counted EXCEPT
                !.TTFBMin = MinLoop(ttfbValues, ttfbValues[1]),
                !.TTFBMax = MaxLoop(ttfbValues, ttfbValues[1]),
                !.TTFBAvg = FloatDiv(SumLoop(ttfbValues), Len(ttfbValues)),
                !.TTFBP50 = percentile(ttfbValues, 50),
                !.TTFBP90 = percentile(ttfbValues, 90),
                !.TTFBP95 = percentile(ttfbValues, 95),
                !.TTFBP99 = percentile(ttfbValues, 99),
                !.CDNLatencyMin = MinLoop(cdnLatencyValues, cdnLatencyValues[1]),
                !.CDNLatencyMax = MaxLoop(cdnLatencyValues, cdnLatencyValues[1]),
                !.CDNLatencyAvg = FloatDiv(SumLoop(cdnLatencyValues),
                                           Len(cdnLatencyValues)),
                !.CDNLatencyP50 = percentile(cdnLatencyValues, 50),
                !.CDNLatencyP90 = percentile(cdnLatencyValues, 90),
                !.CDNLatencyP95 = percentile(cdnLatencyValues, 95),
                !.CDNLatencyP99 = percentile(cdnLatencyValues, 99),
                !.XResponseTimeAvg = FloatDiv(acc.xResponseTimeSum,
                                              Len(ttfbValues)),
                !.HasCDN = acc.hasXResponseTime]

calculateSummary(endpoint, rs) ==
    CHOOSE s \in {calculateSummaryFrom(endpoint, rs, acc) :
                    acc \in {Loop(rs, LoopInit)}} : TRUE

\* A call of calculateSummary that drops the failed samples from the
\* caller's slice
calculateSummaryCallDropsFailed(endpoint, rs) ==
    [summary |-> calculateSummary(endpoint, rs),
     results |-> SelectSeq(rs, LAMBDA r : r.Error = "")]

\* A call of calculateSummary: the summary it returns and the caller's slice
\* after it.  The loop ranges over `results` by value and the slices handed
\* to percentile are the local ttfbValues and cdnLatencyValues, which
\* percentile copies before it sorts: no element of `results` is stored to.
calculateSummaryCall(endpoint, rs) ==
    [summary |-> calculateSummary(endpoint, rs), results |-> rs]

----------------------------------------------------------------------------
(* client.go: measureRequest *)

\* A header value is a sequence of one-character strings.
IsDigit(c) == c \in {"0", "1", "2", "3", "4", "5", "6", "7", "8", "9"}

DigitVal(c) ==
    CASE c = "0" -> 0 [] c = "1" -> 1 [] c = "2" -> 2 [] c = "3" -> 3
      [] c = "4" -> 4 [] c = "5" -> 5 [] c = "6" -> 6 [] c = "7" -> 7
      [] c = "8" -> 8 [] c = "9" -> 9

\* strings.TrimSuffix(s, "s")
TrimSuffixS(h) ==
    IF Len(h) > 0 /\ h[Len(h)] = "s" THEN SubSeq(h, 1, Len(h) - 1) ELSE h

\* strings.TrimSpace(s)
RECURSIVE TrimLeft(_)
TrimLeft(h) == IF Len(h) > 0 /\ Head(h) = " " THEN TrimLeft(Tail(h)) ELSE h

RECURSIVE TrimRight(_)
TrimRight(h) ==
    IF Len(h) > 0 /\ h[Len(h)] = " "
    THEN TrimRight(SubSeq(h, 1, Len(h) - 1)) ELSE h

TrimSpace(h) == TrimRight(TrimLeft(h))

\* The digits of h from position i on, up to the first non-digit
RECURSIVE DigitsEnd(_, _)
DigitsEnd(h, i) ==
    IF i <= Len(h) /\ IsDigit(h[i]) THEN DigitsEnd(h, i + 1) ELSE i

\* The value of the digits h[i..j-1] as an integer
RECURSIVE IntOf(_, _, _)
IntOf(h, i, j) ==
    IF i >= j THEN 0 ELSE IntOf(h, i, j - 1) * 10 + DigitVal(h[j - 1])

\* The value of the fraction digits h[i..j-1] in millionths, digit k of the
\* fraction weighing `w` millionths
RECURSIVE FracOf(_, _, _, _)
FracOf(h, i, j, w) ==
    IF i >= j \/ w = 0 THEN 0
    ELSE DigitVal(h[i]) * w + FracOf(h, i + 1, j, w \div 10)

\* strconv.ParseFloat(s, 64) on the plain decimal forms [+-]ddd[.ddd]; every
\* other text of the modelled headers is a syntax error.  The value is in
\* millionths (a number of seconds read to the microsecond).
ParseFloat(h) ==
    LET signed == Len(h) > 0 /\ h[1] \in {"+", "-"}
        start == IF signed THEN 2 ELSE 1
        intEnd == DigitsEnd(h, start)
        hasDot == intEnd <= Len(h) /\ h[intEnd] = "."
        fracStart == IF hasDot THEN intEnd + 1 ELSE intEnd
        fracEnd == IF hasDot THEN DigitsEnd(h, fracStart) ELSE intEnd
        nDigits == (intEnd - start) + (fracEnd - fracStart)
        mag == IntOf(h, start, intEnd) * 1000000
               + FracOf(h, fracStart, fracEnd, 100000)
    IN  IF nDigits = 0 \/ fracEnd # Len(h) + 1
        THEN [ok |-> FALSE, val |-> 0]
        ELSE [ok |-> TRUE,
              val |-> IF signed /\ h[1] = "-" THEN 0 - mag ELSE mag]

\* What the network does to one request: NewRequest fails or not, the moment
\* GotFirstResponseByte fires (0: never), client.Do fails or not, and the
\* response (status, whether the connection was reused, protocol, the
\* x-source-response-time header, <<>> when there is none).
NetOutcome(reqErr, ttfb, doErr, status, reused, proto, header) ==
    [reqErr |-> reqErr, ttfb |-> ttfb, doErr |-> doErr, status |-> status,
     reused |-> reused, proto |-> proto, header |-> header]

\* val * 1000 with val in seconds is a number of milliseconds: in fixed
\* point, the millionths of a second are the microseconds
XResponseTimeOf(header) ==
    IF header = <<>>
    THEN 0
    ELSE LET parsed == ParseFloat(TrimSpace(TrimSuffixS(header)))
         IN  IF parsed.ok THEN parsed.val ELSE 0

\* measureRequest with the CDN latency taken from the TTFB in whole
\* milliseconds
measureRequestWholeMs(net) ==
    IF net.reqErr
    THEN [ZeroResult EXCEPT !.Error = "create request failed"]
    ELSE IF net.doErr
    THEN [ZeroResult EXCEPT !.Error = "request failed"]
    ELSE LET xrt == XResponseTimeOf(net.header)
         IN  RequestResult(0, net.ttfb, xrt,
                           (net.ttfb \div 1000000) * 1000 - xrt,
                           net.status, net.reused, net.proto, "")

\* measureRequest with the TTFB stored as soon as the first byte is seen
measureRequestKeepsTTFB(net) ==
    IF net.reqErr
    THEN [ZeroResult EXCEPT !.Error = "create request failed"]
    ELSE IF net.doErr
    THEN [ZeroResult EXCEPT !.Error = "request failed", !.TTFB = net.ttfb]
    ELSE LET xrt == XResponseTimeOf(net.header)
         IN  RequestResult(0, net.ttfb, xrt, TtfbMs(net.ttfb) - xrt,
                           net.status, net.reused, net.proto, "")

\* measureRequest with a status of 400 and above reported as a failure
measureRequestStatusIsError(net) ==
    IF net.reqErr
    THEN [ZeroResult EXCEPT !.Error = "create request failed"]
    ELSE IF net.doErr
    THEN [ZeroResult EXCEPT !.Error = "request failed"]
    ELSE IF net.status >= 400
    THEN [ZeroResult EXCEPT !.Error = "bad status"]
    ELSE LET xrt == XResponseTimeOf(net.header)
         IN  RequestResult(0, net.ttfb, xrt, TtfbMs(net.ttfb) - xrt,
                           net.status, net.reused, net.proto, "")

measureRequest(net) ==
    IF net.reqErr
    THEN [ZeroResult EXCEPT !.Error = "create request failed"]
    ELSE IF net.doErr
    THEN [ZeroResult EXCEPT !.Error = "request failed"]
    ELSE LET xrt == XResponseTimeOf(net.header)
         IN  RequestResult(0, net.ttfb, xrt, TtfbMs(net.ttfb) - xrt,
                           net.status, net.reused, net.proto, "")

----------------------------------------------------------------------------
(* fmt: the %.2f verb *)

\* x / d rounded to the nearest integer, as a %.Nf verb rounds a float64
RoundDiv(x, d) ==
    IF x >= 0 THEN (x + d \div 2) \div d ELSE 0 - ((0 - x + d \div 2) \div d)

\* fmt.Sprintf("%.2f", v): the text of a number with two decimals, held as
\* its value in hundredths of a millisecond
Sprintf2f(v) == [kind |-> "number", hundredths |-> RoundDiv(v, 10)]

----------------------------------------------------------------------------
(* main.go: the round scheduler *)

\* ec.Endpoint.Name + "|" + ec.Endpoint.Protocol.String(): no protocol string
\* holds a "|", so two keys are equal iff both parts are
Key(endpoint) == <<endpoint.Name, ProtocolString(endpoint.Protocol)>>

\* The switch of main over endpoint.Protocol: the cases that build a client
Supported(protocol) == protocol \in {HTTP1, HTTP2, HTTP3}

\* createHTTP1Client, createHTTP2Client, createHTTP3Client: a new
\* *http.Client, at address ptr, whose transport dials
\* net.JoinHostPort(ip, port) and negotiates one protocol.  The functions
\* return the client only: none of them looks at the text of ip.
createHTTP1Client(ip, ptr) ==
    [ptr |-> ptr, DialHost |-> ip, NextProtos |-> <<"http/1.1">>]

createHTTP2Client(ip, ptr) ==
    [ptr |-> ptr, DialHost |-> ip, NextProtos |-> <<"h2">>]

createHTTP3Client(ip, ptr) ==
    [ptr |-> ptr, DialHost |-> ip, NextProtos |-> <<"h3">>]

\* The loop that builds `clients`; the address of the client of an endpoint
\* is given by the position of the endpoint in the configuration
RECURSIVE BuildClients(_, _)
BuildClients(endpoints, i) ==
    IF i > Len(endpoints) THEN <<>>
    ELSE IF Supported(endpoints[i].Protocol)
    THEN <<[Endpoint |-> endpoints[i],
            Client |-> CASE endpoints[i].Protocol = HTTP1 ->
                                createHTTP1Client(endpoints[i].IP, i)
                         [] endpoints[i].Protocol = HTTP2 ->
                                createHTTP2Client(endpoints[i].IP, i)
                         [] endpoints[i].Protocol = HTTP3 ->
                                createHTTP3Client(endpoints[i].IP, i)]>>
         \o BuildClients(endpoints, i + 1)
    ELSE BuildClients(endpoints, i + 1)

\* RequestTask with a client of its own for every round
RequestTaskNewClient(ec, index) ==
    [Endpoint |-> ec.Endpoint,
     Client |-> [ec.Client EXCEPT !.ptr = @ + 100 * index],
     Index |-> index]

RequestTask(ec, index) ==
    [Endpoint |-> ec.Endpoint, Client |-> ec.Client, Index |-> index]

\* The zero value EndpointResult{}
ZeroEndpointResult == [Endpoint |-> Endpoint("", "", 0), Result |-> ZeroResult]

\* m[key] = append(m[key], v): a missing key reads as the nil slice
MapAppend(m, key, v) ==
    IF key \in DOMAIN m
    THEN [m EXCEPT ![key] = Append(@, v)]
    ELSE m @@ (key :> <<v>>)

\* for _, er := range results { endpointResults[key] = append(...) }
RECURSIVE CollectLoop(_, _)
CollectLoop(ers, m) ==
    IF ers = <<>> THEN m
    ELSE CollectLoop(Tail(ers),
                     MapAppend(m, Key(Head(ers).Endpoint), Head(ers).Result))

\* The line runParallelRound logs before it starts the workers
RoundHeader(roundNum, totalRounds, n) ==
    [kind |-> "round", round |-> roundNum, total |-> totalRounds,
     requests |-> n]

\* The line runParallelRound logs for one result
ResultLine(er) ==
    IF er.Result.Error # ""
    THEN [kind |-> "error", Name |-> er.Endpoint.Name,
          Protocol |-> ProtocolString(er.Endpoint.Protocol),
          Error |-> er.Result.Error]
    ELSE [kind |-> "ok", Name |-> er.Endpoint.Name,
          Protocol |-> ProtocolString(er.Endpoint.Protocol),
          TTFB |-> Sprintf2f(TtfbMs(er.Result.TTFB)),
          XResponseTime |-> Sprintf2f(er.Result.XResponseTime),
          CDNLatency |-> Sprintf2f(er.Result.CDNLatency),
          Reused |-> er.Result.Reused,
          ActualProto |-> er.Result.ActualProto]

\* The result lines with the last result first
ResultLinesLastFirst(ers) ==
    [i \in DOMAIN ers |-> ResultLine(ers[Len(ers) + 1 - i])]

\* for _, er := range results { logger.Printf(...) }
ResultLines(ers) == [i \in DOMAIN ers |-> ResultLine(ers[i])]

BarrierAlwaysOpen(r) == TRUE

\* wg.Wait() of call r returns when the counter is zero
BarrierOpen(r) == wg[r] = 0

RoundsOneShort(r, n) == r < n

\* round <= config.TestCount
LoopCondition(r, n) == r <= n

\* A pause after every round, the last one included
SleepsAfterEveryRound(r, n) == TRUE

\* if round < config.TestCount { time.Sleep(config.Interval) }
SleepsAfter(r, n) == r < n

\* The networks the probes of the scheduler meet
TimedOut == NetOutcome(FALSE, 0, TRUE, 0, FALSE, "", <<>>)
PlainOK == NetOutcome(FALSE, 3000700, FALSE, 200, FALSE, "HTTP/1.1", <<>>)
OriginOK ==
    NetOutcome(FALSE, 5000000, FALSE, 200, TRUE, "HTTP/2.0",
               <<"0", ".", "0", "0", "2", "s">>)

NetOutcomes == {TimedOut, PlainOK, OriginOK}

\* The endpoints of the configuration files, and what LoadConfig makes of
\* the first three
YamlA1 == YamlEndpoint("A", "10.0.0.1", "HTTP/1.1")
YamlA2 == YamlEndpoint("A", "10.0.0.2", "HTTP/1.1")
YamlB == YamlEndpoint("B", "10.0.0.3", "HTTP/2")
YamlQ == YamlEndpoint("Q", "10.0.0.4", "spdy")
YamlX1 == YamlEndpoint("X", "not-an-ip", "HTTP/1.1")
YamlX2 == YamlEndpoint("X", "not-an-ip", "h2")
YamlX3 == YamlEndpoint("X", "not-an-ip", "http3")

EndpointA1 == Endpoint("A", "10.0.0.1", HTTP1)
EndpointA2 == Endpoint("A", "10.0.0.2", HTTP1)
EndpointB == Endpoint("B", "10.0.0.3", HTTP2)

EndpointLists ==
    {<<>>, <<YamlA1>>, <<YamlA1, YamlB>>, <<YamlA1, YamlA2>>}

WideList == <<YamlA1, YamlB, YamlA2>>

\* Lists with a protocol text outside the cases of parseProtocol and with an
\* ip that is no IP address, for each protocol
OddLists == {<<YamlQ, YamlB>>, <<YamlX1>>, <<YamlX2>>, <<YamlX3>>}

\* The configuration files: endpoint lists and a round count
YamlConfigs ==
    [Endpoints : EndpointLists, TestCount : 0..MaxRounds]
    \cup [Endpoints : {WideList} \cup OddLists, TestCount : 1..MaxWideRounds]

NoPercentileCall == [called |-> FALSE]
NoSummaryCall == [called |-> FALSE]

StatsIdle ==
    /\ pValues = <<>>
    /\ pOut = NoPercentileCall
    /\ sSamples = <<>>
    /\ sOut = NoSummaryCall
    /\ sAgain = NoSummaryCall

statVars == <<pValues, pOut, sSamples, sOut, sAgain>>

NoReport == [written |-> FALSE]

ProbeIdle ==
    /\ mNets = <<>>
    /\ mResults = <<>>
    /\ mSummary = NoSummaryCall
    /\ mReport = NoReport

probeVars == <<mNets, mResults, mSummary, mReport>>

\* The nil *http.Client
NoClient == [ptr |-> 0, DialHost |-> "", NextProtos |-> <<>>]

DialIdle ==
    /\ dClient = NoClient
    /\ dDomain = ""
    /\ dDials = <<>>
    /\ dSockets = {}

dialVars == <<dClient, dDomain, dDials, dSockets>>

Init ==
    /\ yc \in YamlConfigs
    /\ config = LoadConfig(yc)
    /\ pc = "createClients"
    /\ clients = <<>>
    /\ endpointResults = <<>>
    /\ round = 0
    /\ tasks = <<>>
    /\ launched = 0
    /\ wg = <<>>
    /\ goroutines = {}
    /\ results = <<>>
    /\ allSummaries = <<>>
    /\ sleeps = 0
    /\ log = <<>>
    /\ StatsIdle
    /\ ProbeIdle
    /\ DialIdle

\* main, lines 111-138: the clients and the map of sample sequences
CreateClients ==
    /\ pc = "createClients"
    /\ clients' = BuildClients(config.Endpoints, 1)
    /\ endpointResults' =
         [k \in {Key(clients'[i].Endpoint) : i \in 1..Len(clients')} |-> <<>>]
    /\ round' = 1
    /\ pc' = "roundLoop"
    /\ UNCHANGED <<yc, config, sleeps,
                   log,
                   tasks, launched, wg, goroutines, results,
                   allSummaries, statVars,
                   probeVars, dialVars>>

\* main, lines 141-155, and runParallelRound, lines 31-34: the tasks of the
\* round, the call, its WaitGroup and its results slice
RoundBegin ==
    /\ pc = "roundLoop"
    /\ LoopCondition(round, config.TestCount)
    /\ tasks' = [i \in 1..Len(clients) |-> RequestTask(clients[i], round)]
    /\ wg' = wg @@ (round :> 0)
    /\ results' = results @@
                    (round :> [i \in 1..Len(clients) |-> ZeroEndpointResult])
    /\ launched' = 0
    /\ log' = Append(log, RoundHeader(round, config.TestCount,
                                      Len(clients)))
    /\ pc' = "launch"
    /\ UNCHANGED <<yc, config, sleeps,
                   clients, endpointResults, round, goroutines,
                   allSummaries, statVars,
                   probeVars, dialVars>>

\* runParallelRound, lines 36-47: wg.Add(1); go func(idx, t) {...}(i, task)
Launch ==
    /\ pc = "launch"
    /\ launched < Len(tasks)
    /\ wg' = [wg EXCEPT ![round] = @ + 1]
    /\ goroutines' = goroutines \cup
         {[round |-> round, idx |-> launched + 1, t |-> tasks[launched + 1],
           st |-> "ready"]}
    /\ launched' = launched + 1
    /\ UNCHANGED <<yc, config, sleeps,
                   log,
                   pc, clients, endpointResults, round, tasks,
                   results, allSummaries, statVars,
                   probeVars, dialVars>>

\* runParallelRound, line 49: the loop is over, main reaches wg.Wait()
ReachWait ==
    /\ pc = "launch"
    /\ launched = Len(tasks)
    /\ pc' = "wait"
    /\ UNCHANGED <<yc, config, sleeps,
                   log,
                   clients, endpointResults, round, tasks, launched,
                   wg, goroutines, results, allSummaries, statVars,
                   probeVars, dialVars>>

\* A worker goroutine is scheduled and calls measureRequest (line 40)
WorkerStart(g) ==
    /\ g \in goroutines
    /\ g.st = "ready"
    /\ goroutines' = (goroutines \ {g}) \cup {[g EXCEPT !.st = "probing"]}
    /\ UNCHANGED <<yc, config, sleeps,
                   log,
                   pc, clients, endpointResults, round, tasks,
                   launched, wg, results, allSummaries, statVars,
                   probeVars, dialVars>>

\* measureRequest returns; lines 41-45 and the deferred wg.Done()
WorkerReturn(g, net) ==
    /\ g \in goroutines
    /\ g.st = "probing"
    /\ LET result == [measureRequest(net) EXCEPT !.Index = g.t.Index]
       IN  results' = [results EXCEPT ![g.round][g.idx] =
                          [Endpoint |-> g.t.Endpoint, Result |-> result]]
    /\ wg' = [wg EXCEPT ![g.round] = @ - 1]
    /\ goroutines' = goroutines \ {g}
    /\ UNCHANGED <<yc, config, sleeps,
                   log,
                   pc, clients, endpointResults, round, tasks,
                   launched, allSummaries, statVars,
                   probeVars, dialVars>>

\* runParallelRound, lines 49-71: wg.Wait() returns, the results are logged
\* and returned
Wait ==
    /\ pc = "wait"
    /\ BarrierOpen(round)
    /\ log' = log \o ResultLines(results[round])
    /\ pc' = "collect"
    /\ UNCHANGED <<yc, config, sleeps,
                   clients, endpointResults, round, tasks, launched,
                   wg, goroutines, results, allSummaries, statVars,
                   probeVars, dialVars>>

\* main, lines 157-166: the results are appended to the sequences
Collect ==
    /\ pc = "collect"
    /\ endpointResults' = CollectLoop(results[round], endpointResults)
    /\ IF SleepsAfter(round, config.TestCount)
       THEN pc' = "sleep" /\ round' = round
       ELSE pc' = "roundLoop" /\ round' = round + 1
    /\ UNCHANGED <<yc, config, sleeps,
                   log,
                   clients, tasks, launched, wg, goroutines, results,
                   allSummaries, statVars,
                   probeVars, dialVars>>

\* main, line 165 and the loop's round++
Sleep ==
    /\ pc = "sleep"
    /\ sleeps' = sleeps + 1
    /\ round' = round + 1
    /\ pc' = "roundLoop"
    /\ UNCHANGED <<yc, config, log,
                   clients, endpointResults, tasks, launched, wg,
                   goroutines, results, allSummaries, statVars,
                   probeVars, dialVars>>

\* main, lines 170-186: one summary per client, from the sequence of its key
Summarize ==
    /\ pc = "roundLoop"
    /\ ~LoopCondition(round, config.TestCount)
    /\ allSummaries' =
         [i \in 1..Len(clients) |->
            calculateSummary(clients[i].Endpoint,
                             endpointResults[Key(clients[i].Endpoint)])]
    /\ pc' = "done"
    /\ UNCHANGED <<yc, config, sleeps,
                   log,
                   clients, endpointResults, round, tasks, launched,
                   wg, goroutines, results, statVars,
                   probeVars, dialVars>>

MainNext ==
    \/ CreateClients
    \/ RoundBegin
    \/ Launch
    \/ ReachWait
    \/ Wait
    \/ Collect
    \/ Sleep
    \/ Summarize

WorkerNext ==
    \E g \in goroutines :
        \/ WorkerStart(g)
        \/ \E net \in NetOutcomes : WorkerReturn(g, net)

Next == MainNext \/ WorkerNext

Spec == Init /\ [][Next]_vars

\* The main goroutine runs on, the Go scheduler runs every goroutine, and
\* every probe returns (client.Do is bounded by the client's Timeout)
FairSpec == Spec /\ WF_vars(MainNext) /\ WF_vars(WorkerNext)

----------------------------------------------------------------------------
(* Calls of percentile on bounded lists of values *)

SchedulerIdle ==
    /\ yc = [Endpoints |-> <<>>, TestCount |-> 0]
    /\ config = [Endpoints |-> <<>>, TestCount |-> 0]
    /\ pc = "idle"
    /\ clients = <<>>
    /\ endpointResults = <<>>
    /\ round = 0
    /\ tasks = <<>>
    /\ launched = 0
    /\ wg = <<>>
    /\ goroutines = {}
    /\ results = <<>>
    /\ allSummaries = <<>>
    /\ sleeps = 0
    /\ log = <<>>

\* Every list of at most MaxLen values of 0..MaxVal
ShortLists == UNION {[1..n -> 0..MaxVal] : n \in 0..MaxLen}

\* Lists of n values in a scattered order (a permutation of the multiples of
\* ten when k and n + 1 are coprime)
Scattered(n, k) == [i \in 1..n |-> ((i * k) % (n + 1)) * 10]

LongLists ==
    {Scattered(n, k) : n \in {5, 21}, k \in {1, 7}}
    \cup {Scattered(100, 1), Scattered(100, 7), Scattered(101, 50)}

\* The CDN latencies of five rounds with TTFB 100, 120, 110, 130, 90 ms and
\* 50 ms of origin time
ScenarioA == <<50, 70, 60, 80, 40>>

PercentileInputs == ShortLists \cup LongLists \cup {ScenarioA}

\* 100 * p for the fractions p the calls are made with
Fractions == {0, 25, 50, 90, 95, 99, 100}

InitPercentile ==
    /\ SchedulerIdle
    /\ pValues \in PercentileInputs
    /\ pOut = NoPercentileCall
    /\ sSamples = <<>>
    /\ sOut = NoSummaryCall
    /\ sAgain = NoSummaryCall
    /\ ProbeIdle
    /\ DialIdle

\* One call percentile(pValues, p)
CallPercentile(p) ==
    /\ ~pOut.called
    /\ pOut' = [called |-> TRUE, p |-> p, call |-> percentileCall(pValues, p)]
    /\ UNCHANGED <<schedVars, pValues, sSamples, sOut, sAgain, probeVars,
                   dialVars>>

NextPercentile == \E p \in Fractions : CallPercentile(p)

SpecPercentile == InitPercentile /\ [][NextPercentile]_vars

----------------------------------------------------------------------------
(* Calls of calculateSummary on bounded sample sequences *)

\* The samples: failed ones as measureRequest returns them and with timing
\* fields set, successful ones without origin time, with it, and with an
\* origin time above the TTFB
SamplePool ==
    {RequestResult(0, 0, 0, 0, 0, FALSE, "", "request failed"),
     RequestResult(0, 9000000, 4000, 5000, 0, FALSE, "", "request failed"),
     RequestResult(0, 3000700, 0, 3000, 200, FALSE, "HTTP/1.1", ""),
     RequestResult(0, 5000000, 2000, 3000, 200, TRUE, "HTTP/2.0", ""),
     RequestResult(0, 4000000, 1000, 3000, 404, TRUE, "HTTP/2.0", ""),
     RequestResult(0, 1000000, 2000, 0 - 1000, 200, FALSE, "HTTP/3.0", "")}

\* Sequences of at most MaxSamples samples, numbered by round
SampleSequences ==
    UNION {{[i \in 1..n |-> [f[i] EXCEPT !.Index = i]] :
                f \in [1..n -> SamplePool]} : n \in 0..MaxSamples}

InitSummary ==
    /\ SchedulerIdle
    /\ pValues = <<>>
    /\ pOut = NoPercentileCall
    /\ sSamples \in SampleSequences
    /\ sOut = NoSummaryCall
    /\ sAgain = NoSummaryCall
    /\ ProbeIdle
    /\ DialIdle

\* One call calculateSummary(endpoint, sSamples): the summary, the slice as
\* it was passed and the slice as the call leaves it
CallCalculateSummary(endpoint) ==
    /\ ~sOut.called
    /\ LET call == calculateSummaryCall(endpoint, sSamples)
       IN  /\ sOut' = [called |-> TRUE, endpoint |-> endpoint,
                       summary |-> call.summary, passed |-> sSamples]
           /\ sSamples' = call.results
    /\ UNCHANGED <<schedVars, pValues, pOut, sAgain, probeVars, dialVars>>

\* A second call with the same endpoint on the slice the first call left
CallCalculateSummaryAgain ==
    /\ sOut.called
    /\ ~sAgain.called
    /\ LET call == calculateSummaryCall(sOut.endpoint, sSamples)
       IN  /\ sAgain' = [called |-> TRUE, summary |-> call.summary]
           /\ sSamples' = call.results
    /\ UNCHANGED <<schedVars, pValues, pOut, sOut, probeVars, dialVars>>

NextSummary ==
    \/ \E endpoint \in {EndpointA1, EndpointB} :
            CallCalculateSummary(endpoint)
    \/ CallCalculateSummaryAgain

SpecSummary == InitSummary /\ [][NextSummary]_vars

----------------------------------------------------------------------------
(* The probes of one endpoint, their summary and its reports *)

\* printf "%.0f" of the HTML template: the text of a whole number
Printf0f(v) == [kind |-> "number", units |-> RoundDiv(v, 1000)]

\* The text "-"
Dash == [kind |-> "dash"]

\* encoding/json of a float64 field: a JSON number of full precision
JSONNumber(v) == [kind |-> "number", micros |-> v]

\* printSummaryTable: the row of one summary
printSummaryTable(s) ==
    [EndpointName |-> s.EndpointName,
     Protocol |-> s.Protocol,
     Counts |-> <<s.SuccessCount, s.TotalTests>>,
     TTFBAvg |-> Sprintf2f(s.TTFBAvg),
     TTFBP50 |-> Sprintf2f(s.TTFBP50),
     TTFBP90 |-> Sprintf2f(s.TTFBP90),
     TTFBP99 |-> Sprintf2f(s.TTFBP99),
     TTFBMin |-> Sprintf2f(s.TTFBMin),
     TTFBMax |-> Sprintf2f(s.TTFBMax),
     cdnLatencyAvg |-> IF s.HasCDN THEN Sprintf2f(s.CDNLatencyAvg) ELSE Dash,
     cdnP50 |-> IF s.HasCDN THEN Sprintf2f(s.CDNLatencyP50) ELSE Dash,
     cdnP90 |-> IF s.HasCDN THEN Sprintf2f(s.CDNLatencyP90) ELSE Dash,
     cdnP99 |-> IF s.HasCDN THEN Sprintf2f(s.CDNLatencyP99) ELSE Dash,
     xResponseAvg |-> IF s.HasCDN THEN Sprintf2f(s.XResponseTimeAvg)
                      ELSE Dash]

\* The row of one summary in the summary table of htmlTemplate
HTMLSummaryRow(s) ==
    [EndpointName |-> s.EndpointName,
     Protocol |-> s.Protocol,
     Counts |-> <<s.SuccessCount, s.TotalTests>>,
     TTFBAvg |-> Printf0f(s.TTFBAvg),
     TTFBP50 |-> Printf0f(s.TTFBP50),
     TTFBP90 |-> Printf0f(s.TTFBP90),
     TTFBP95 |-> Printf0f(s.TTFBP95),
     TTFBP99 |-> Printf0f(s.TTFBP99),
     CDNLatencyAvg |-> IF s.HasCDN THEN Printf0f(s.CDNLatencyAvg) ELSE Dash,
     CDNLatencyP50 |-> IF s.HasCDN THEN Printf0f(s.CDNLatencyP50) ELSE Dash,
     CDNLatencyP90 |-> IF s.HasCDN THEN Printf0f(s.CDNLatencyP90) ELSE Dash,
     CDNLatencyP95 |-> IF s.HasCDN THEN Printf0f(s.CDNLatencyP95) ELSE Dash,
     CDNLatencyP99 |-> IF s.HasCDN THEN Printf0f(s.CDNLatencyP99) ELSE Dash,
     XResponseTimeAvg |-> IF s.HasCDN THEN Printf0f(s.XResponseTimeAvg)
                          ELSE Dash]

\* ExportJSON: json.MarshalIndent of the report; Summary has no json tags,
\* so every field is written under its own name, whatever HasCDN is
ExportJSON(s) ==
    [EndpointName |-> s.EndpointName,
     Protocol |-> s.Protocol,
     TotalTests |-> s.TotalTests,
     SuccessCount |-> s.SuccessCount,
     FailCount |-> s.FailCount,
     TTFBAvg |-> JSONNumber(s.TTFBAvg),
     TTFBMin |-> JSONNumber(s.TTFBMin),
     TTFBMax |-> JSONNumber(s.TTFBMax),
     TTFBP50 |-> JSONNumber(s.TTFBP50),
     TTFBP90 |-> JSONNumber(s.TTFBP90),
     TTFBP95 |-> JSONNumber(s.TTFBP95),
     TTFBP99 |-> JSONNumber(s.TTFBP99),
     CDNLatencyAvg |-> JSONNumber(s.CDNLatencyAvg),
     CDNLatencyMin |-> JSONNumber(s.CDNLatencyMin),
     CDNLatencyMax |-> JSONNumber(s.CDNLatencyMax),
     CDNLatencyP50 |-> JSONNumber(s.CDNLatencyP50),
     CDNLatencyP90 |-> JSONNumber(s.CDNLatencyP90),
     CDNLatencyP95 |-> JSONNumber(s.CDNLatencyP95),
     CDNLatencyP99 |-> JSONNumber(s.CDNLatencyP99),
     XResponseTimeAvg |-> JSONNumber(s.XResponseTimeAvg),
     HasCDN |-> s.HasCDN]

\* A report that config.EnableJSON or config.EnableHTML turns off
NotExported == [kind |-> "none"]

\* What the network does to the probes of the endpoint: failures before and
\* after the first response byte, and responses without the header, with a
\* zero, malformed, fractional, spaced, too large and negative header value,
\* and with a non-2xx status
RequestNotCreated == NetOutcome(TRUE, 0, FALSE, 0, FALSE, "", <<>>)
FailedAfterFirstByte == NetOutcome(FALSE, 2000000, TRUE, 0, TRUE, "", <<>>)
ZeroOrigin == [PlainOK EXCEPT !.header = <<"0">>]
MalformedOrigin == [PlainOK EXCEPT !.header = <<"a", "b", "c">>]
FractionOrigin ==
    NetOutcome(FALSE, 3250700, FALSE, 200, FALSE, "HTTP/1.1",
               <<"0", ".", "0", "0", "1", "2", "5">>)
LargeOrigin ==
    NetOutcome(FALSE, 1000000, FALSE, 200, FALSE, "HTTP/3.0", <<"9">>)
NegativeOrigin ==
    NetOutcome(FALSE, 1000000, FALSE, 200, FALSE, "HTTP/3.0",
               <<"-", "0", ".", "0", "0", "1">>)
NotFound == NetOutcome(FALSE, 4000000, FALSE, 404, TRUE, "HTTP/2.0", <<>>)
ServerError ==
    NetOutcome(FALSE, 6000000, FALSE, 500, TRUE, "HTTP/2.0",
               <<"0", ".", "0", "0", "1", " ", "s">>)

ProbeNets ==
    {RequestNotCreated, TimedOut, FailedAfterFirstByte, PlainOK, ZeroOrigin,
     MalformedOrigin, FractionOrigin, OriginOK, LargeOrigin, NegativeOrigin,
     NotFound, ServerError}

InitProbe ==
    /\ SchedulerIdle
    /\ StatsIdle
    /\ mNets \in UNION {[1..n -> ProbeNets] : n \in 0..MaxProbes}
    /\ mResults = <<>>
    /\ mSummary = NoSummaryCall
    /\ mReport = NoReport
    /\ DialIdle

\* The probe of the next round: measureRequest returns and the result, given
\* the round as its Index, is appended to the endpoint's sequence
Probe ==
    /\ Len(mResults) < Len(mNets)
    /\ LET k == Len(mResults) + 1
       IN  mResults' = Append(mResults,
                              [measureRequest(mNets[k]) EXCEPT !.Index = k])
    /\ UNCHANGED <<schedVars, statVars, dialVars, mNets, mSummary, mReport>>

\* After the last round: the summary of the endpoint
Aggregate ==
    /\ Len(mResults) = Len(mNets)
    /\ ~mSummary.called
    /\ mSummary' = [called |-> TRUE,
                    summary |-> calculateSummary(EndpointA1, mResults)]
    /\ UNCHANGED <<schedVars, statVars, dialVars, mNets, mResults, mReport>>

\* The reports of the summary: the console table always, the JSON and HTML
\* reports when the configuration enables them
Export(enableJSON, enableHTML) ==
    /\ mSummary.called
    /\ ~mReport.written
    /\ mReport' =
         [written |-> TRUE,
          console |-> printSummaryTable(mSummary.summary),
          json |-> IF enableJSON THEN ExportJSON(mSummary.summary)
                   ELSE NotExported,
          html |-> IF enableHTML THEN HTMLSummaryRow(mSummary.summary)
                   ELSE NotExported]
    /\ UNCHANGED <<schedVars, statVars, dialVars, mNets, mResults, mSummary>>

NextProbe ==
    \/ Probe
    \/ Aggregate
    \/ \E enableJSON, enableHTML \in BOOLEAN : Export(enableJSON, enableHTML)

SpecProbe == InitProbe /\ [][NextProbe]_vars

----------------------------------------------------------------------------
(* client.go: the dial functions of the transports *)

\* A network address is a sequence of tokens: a host, ":" and a port.
\* net.SplitHostPort(addr) on hosts without brackets: the port follows the
\* last colon, and a missing colon or a colon in the host is an error.
SplitHostPort(addr) ==
    LET colons == {i \in DOMAIN addr : addr[i] = ":"}
    IN  IF colons = {}
        THEN [err |-> "missing port in address", host |-> "", port |-> ""]
        ELSE LET i == CHOOSE c \in colons : \A d \in colons : d <= c
             IN  IF i # 2 \/ Len(addr) > i + 1
                 THEN [err |-> "too many colons in address", host |-> "",
                       port |-> ""]
                 ELSE [err |-> "", host |-> addr[1],
                       port |-> IF Len(addr) = i THEN "" ELSE addr[i + 1]]

\* net.JoinHostPort(host, port), host without a colon
JoinHostPort(host, port) == <<host, ":", port>>

\* The texts the resolver of package net takes for IP addresses
ParsesAsIP(host) ==
    host \in {"10.0.0.1", "10.0.0.2", "10.0.0.3", "10.0.0.4"}

\* What the resolver makes of the host of a dial address: the address
\* itself for an IP address, else the answer of a DNS lookup of the name, an
\* address or "" when the lookup fails
Resolve(address, dns) ==
    LET sp == SplitHostPort(address)
    IN  IF sp.err # ""
        THEN [err |-> sp.err, ip |-> "", port |-> "", lookedUp |-> ""]
        ELSE IF ParsesAsIP(sp.host)
        THEN [err |-> "", ip |-> sp.host, port |-> sp.port, lookedUp |-> ""]
        ELSE IF dns = ""
        THEN [err |-> "no such host", ip |-> "", port |-> sp.port,
              lookedUp |-> sp.host]
        ELSE [err |-> "", ip |-> dns, port |-> sp.port,
              lookedUp |-> sp.host]

\* The port of the DialContext and Dial functions of the three transports
PortOf(addr) ==
    LET sp == SplitHostPort(addr)
    IN  IF sp.err # "" THEN "443" ELSE sp.port

\* DialContext of createHTTP1Client and createHTTP2Client: the dialer is
\* handed net.JoinHostPort(ip, port), resolves its host and connects; sent
\* tells whether a connection was attempted
DialContext(client, addr, dns, connOK) ==
    LET remote == Resolve(JoinHostPort(client.DialHost, PortOf(addr)), dns)
    IN  [addr |-> addr, remote |-> remote, sent |-> remote.err = "",
         socket |-> 0,
         conn |-> remote.err = "" /\ connOK]

\* Dial of createHTTP3Client: net.ResolveUDPAddr, net.ListenUDP and
\* quic.Dial, each returning at once on an error.  socket is the local UDP
\* socket ListenUDP opened (0: none); no path closes it, and quic.Dial,
\* handed a net.PacketConn by its caller, leaves it open when it fails.
DialQUIC(client, addr, dns, listenOK, connOK, fd) ==
    LET udpAddr == Resolve(JoinHostPort(client.DialHost, PortOf(addr)), dns)
    IN  IF udpAddr.err # ""
        THEN [addr |-> addr, remote |-> udpAddr, sent |-> FALSE,
              socket |-> 0, conn |-> FALSE]
        ELSE IF ~listenOK
        THEN [addr |-> addr, remote |-> udpAddr, sent |-> FALSE,
              socket |-> 0, conn |-> FALSE]
        ELSE [addr |-> addr, remote |-> udpAddr, sent |-> TRUE,
              socket |-> fd, conn |-> connOK]

\* The handles: one per protocol for an IP address, for a text that is no
\* address and for the virtual hostname itself
VirtualHost == "cdn.test"

DialTexts == {"10.0.0.1", "not-an-ip", VirtualHost}

Handles ==
    UNION {{createHTTP1Client(ip, 1), createHTTP2Client(ip, 1),
            createHTTP3Client(ip, 1)} : ip \in DialTexts}

\* The addresses the HTTP stack asks a transport to dial for a request to
\* https://<domain><path>: the host of the URL with a port, and without
AddrsOf(domain) ==
    {<<domain, ":", "443">>, <<domain, ":", "8443">>, <<domain>>}

\* The answers of the DNS: none, or an address
DNSAnswers == {"", "198.51.100.7"}

InitDial ==
    /\ SchedulerIdle
    /\ StatsIdle
    /\ ProbeIdle
    /\ dClient \in Handles
    /\ dDomain = VirtualHost
    /\ dDials = <<>>
    /\ dSockets = {}

\* measureRequest sends a request with req.Host = domain through the handle
\* and the transport, having no idle connection, dials
Dial(addr, dns, listenOK, connOK) ==
    /\ Len(dDials) < MaxDials
    /\ LET fd == Len(dDials) + 1
           d == IF dClient.NextProtos = <<"h3">>
                THEN DialQUIC(dClient, addr, dns, listenOK, connOK, fd)
                ELSE DialContext(dClient, addr, dns, connOK)
       IN  /\ dDials' = Append(dDials,
                               [Host |-> dDomain, addr |-> d.addr,
                                remote |-> d.remote, sent |-> d.sent,
                                conn |-> d.conn])
           /\ dSockets' = IF d.socket = 0 THEN dSockets
                          ELSE dSockets \cup
                                 {[fd |-> d.socket, open |-> TRUE,
                                   conn |-> d.conn]}
    /\ UNCHANGED <<schedVars, statVars, probeVars, dClient, dDomain>>

NextDial ==
    \E addr \in AddrsOf(dDomain), dns \in DNSAnswers,
       listenOK \in BOOLEAN, connOK \in BOOLEAN :
        Dial(addr, dns, listenOK, connOK)

SpecDial == InitDial /\ [][NextDial]_vars

----------------------------------------------------------------------------
(* The percentile rule *)

\* v is the element at zero-based index k of the values in ascending order:
\* at most k values are below v and at least k + 1 are not above it
IsAtSortedIndex(values, k, v) ==
    /\ \E i \in DOMAIN values : values[i] = v
    /\ Cardinality({i \in DOMAIN values : values[i] < v}) <= k
    /\ Cardinality({i \in DOMAIN values : values[i] <= v}) >= k + 1

\* k = floor((count - 1) * p / 100)
IsFloorIndex(count, p, k) ==
    /\ 100 * k <= (count - 1) * p
    /\ (count - 1) * p < 100 * (k + 1)

\* C6: for a non-empty list and P in {0.50, 0.90, 0.95, 0.99}, percentile
\* returns the element at zero-based index floor((count-1)*P) of the values
\* sorted ascending; P50 of sorted [40,50,60,70,80] is 60 and P50 of 100
\* ascending values is the one at index 49.
C6_PercentileRule ==
    (pOut.called /\ pValues # <<>> /\ pOut.p \in {50, 90, 95, 99}) =>
        /\ pOut.call.indexed
        /\ IsFloorIndex(Len(pValues), pOut.p, pOut.call.index)
        /\ IsAtSortedIndex(pValues, pOut.call.index, pOut.call.v)
        /\ (pValues = ScenarioA /\ pOut.p = 50) => pOut.call.v = 60
        /\ (pValues = Scattered(100, 1) /\ pOut.p = 50) =>
                pOut.call.index = 49 /\ pOut.call.v = pValues[50]

C6_Witness ==
    /\ pOut.called
    /\ pValues = Scattered(100, 7)
    /\ pOut.p = 90
    /\ pOut.call.index = 89
    /\ pOut.call.v = 900

\* C7: for a non-empty list, percentile(values, 0) is the minimum and
\* percentile(values, 1) the maximum of the list, and the index used is in
\* 0..count-1 for every P of [0,1].
C7_PercentileEnds ==
    (pOut.called /\ pValues # <<>>) =>
        /\ pOut.call.indexed
        /\ pOut.call.index \in 0..(Len(pValues) - 1)
        /\ pOut.p = 0 =>
              /\ \E i \in DOMAIN pValues : pValues[i] = pOut.call.v
              /\ \A i \in DOMAIN pValues : pOut.call.v <= pValues[i]
        /\ pOut.p = 100 =>
              /\ \E i \in DOMAIN pValues : pValues[i] = pOut.call.v
              /\ \A i \in DOMAIN pValues : pOut.call.v >= pValues[i]

C7_Witness ==
    /\ pOut.called
    /\ pValues = <<3, 0, 1>>
    /\ pOut.p = 100
    /\ pOut.call.index = 2
    /\ pOut.call.v = 3

----------------------------------------------------------------------------
(* The summary of a sample sequence *)

Failed(r) == r.Error # ""

\* The numeric statistics of a summary and its flag
Stats(s) ==
    <<s.TTFBAvg, s.TTFBMin, s.TTFBMax, s.TTFBP50, s.TTFBP90, s.TTFBP95,
      s.TTFBP99, s.CDNLatencyAvg, s.CDNLatencyMin, s.CDNLatencyMax,
      s.CDNLatencyP50, s.CDNLatencyP90, s.CDNLatencyP95, s.CDNLatencyP99,
      s.XResponseTimeAvg>>

ZeroStats == <<0, 0, 0, 0, 0, 0, 0, 0, 0, 0, 0, 0, 0, 0, 0>>

\* C8: when every sample has a non-empty Error (the empty sequence
\* included), every numeric statistic of the summary is 0, HasCDN is false,
\* SuccessCount is 0 and FailCount equals TotalTests.
C8_ZeroSuccessSummary ==
    (sOut.called /\ \A i \in DOMAIN sSamples : Failed(sSamples[i])) =>
        /\ Stats(sOut.summary) = ZeroStats
        /\ sOut.summary.HasCDN = FALSE
        /\ sOut.summary.SuccessCount = 0
        /\ sOut.summary.TotalTests = Len(sSamples)
        /\ sOut.summary.FailCount = sOut.summary.TotalTests

C8_Witness ==
    /\ sOut.called
    /\ Len(sSamples) = 2
    /\ \A i \in DOMAIN sSamples : Failed(sSamples[i])
    /\ sSamples[1].TTFB > 0 /\ sSamples[1].XResponseTime > 0
    /\ sOut.summary.FailCount = 2

\* The sequence without its failed samples, and the sequence with the timing
\* fields of its failed samples replaced
Successful(rs) == SelectSeq(rs, LAMBDA r : ~Failed(r))

WithFailedTimings(rs, ttfb, xrt, cdn) ==
    [i \in DOMAIN rs |->
        IF Failed(rs[i])
        THEN [rs[i] EXCEPT !.TTFB = ttfb, !.XResponseTime = xrt,
                           !.CDNLatency = cdn]
        ELSE rs[i]]

\* C9: TotalTests is the length of the sequence, FailCount the number of
\* samples with an Error, SuccessCount the number without; and no mean, min,
\* max or percentile changes when the failed samples are removed or their
\* timing fields are changed.
C9_FailuresOnlyCounted ==
    sOut.called =>
        LET n == Cardinality({i \in DOMAIN sSamples : Failed(sSamples[i])})
            s == sOut.summary
        IN  /\ s.TotalTests = Len(sSamples)
            /\ s.FailCount = n
            /\ s.SuccessCount = Len(sSamples) - n
            /\ s.SuccessCount + s.FailCount = s.TotalTests
            /\ Stats(s) = Stats(calculateSummary(sOut.endpoint,
                                                 Successful(sSamples)))
            /\ Stats(s) = Stats(calculateSummary(sOut.endpoint,
                                  WithFailedTimings(sSamples, 0, 0, 0)))
            /\ Stats(s) = Stats(calculateSummary(sOut.endpoint,
                                  WithFailedTimings(sSamples, 7000000, 6000,
                                                    1000)))

C9_Witness ==
    /\ sOut.called
    /\ Len(sSamples) = 3
    /\ Failed(sSamples[2]) /\ sSamples[2].TTFB > 0
    /\ ~Failed(sSamples[1]) /\ ~Failed(sSamples[3])
    /\ sOut.summary.SuccessCount = 2
    /\ sOut.summary.FailCount = 1
    /\ sOut.summary.TTFBMax < TtfbMs(sSamples[2].TTFB)

\* C10: HasCDN is true iff some sample with an empty Error has
\* XResponseTime > 0; failed samples never set the flag.
C10_HasCDNIff ==
    sOut.called =>
        (sOut.summary.HasCDN <=>
            \E i \in DOMAIN sSamples :
                ~Failed(sSamples[i]) /\ sSamples[i].XResponseTime > 0)

C10_Witness ==
    /\ sOut.called
    /\ Len(sSamples) = 2
    /\ Failed(sSamples[1]) /\ sSamples[1].XResponseTime > 0
    /\ ~Failed(sSamples[2]) /\ sSamples[2].XResponseTime = 0
    /\ sOut.summary.HasCDN = FALSE

----------------------------------------------------------------------------
(* The rounds of the campaign *)

\* The sample sequence and the summary main hands to the reports for its
\* i-th client
SequenceOf(i) == endpointResults[Key(clients[i].Endpoint)]

\* What the probes of the i-th client returned, round by round
ProbesOf(i) == [r \in DOMAIN results |-> results[r][i].Result]

\* Slot i of call r has been written by its worker (a task's Index is >= 1)
Written(r, i) == results[r][i].Result.Index = r

\* C1: no probe of round r+1 starts before every probe launched in round r,
\* successful or failed, has returned; and within a round every probe has
\* been launched when the scheduler waits.
C1_RoundBarrier ==
    /\ \A g \in goroutines :
          /\ g.round = round
          /\ \A r \in DOMAIN results :
                r < g.round =>
                    /\ wg[r] = 0
                    /\ \A i \in DOMAIN results[r] : Written(r, i)
    /\ pc = "wait" =>
          /\ launched = Len(tasks)
          /\ Len(tasks) = Len(clients)
          /\ \A i \in DOMAIN tasks :
                \/ Written(round, i)
                \/ \E g \in goroutines : g.round = round /\ g.idx = i

C1_Witness ==
    /\ round = 2
    /\ \E g \in goroutines : g.round = 2 /\ g.st = "probing"
    /\ Len(clients) = 2
    /\ Failed(results[1][1].Result)
    /\ ~Failed(results[1][2].Result)

\* C2: after the campaign every endpoint that took part has exactly one
\* sample sequence, of length TestCount, for any list of endpoints (also
\* endpoints that share a display name and protocol) and any mix of probe
\* successes and failures.
C2_OneSequencePerEndpoint ==
    pc = "done" =>
        \A i \in DOMAIN clients : Len(SequenceOf(i)) = config.TestCount

\* C3: for every endpoint, the sample at position i of its sequence has
\* Index = i, whatever order the probes of a round finish in.
C3_RoundOrdering ==
    \A i \in DOMAIN clients :
        \A k \in DOMAIN SequenceOf(i) : SequenceOf(i)[k].Index = k

\* C4: when exactly one probe of an endpoint fails, in round r, the
\* endpoint's sample at index r has an Error and its summary has
\* TotalTests = N, FailCount = 1, SuccessCount = N - 1; the samples and the
\* summaries of every other endpoint are what its own probes give.
C4_FailureIsolation ==
    pc = "done" =>
        \A i \in DOMAIN clients :
            LET fails == {r \in DOMAIN results : Failed(ProbesOf(i)[r])}
            IN  Cardinality(fails) = 1 =>
                    \A r \in fails :
                        /\ r \in DOMAIN SequenceOf(i)
                        /\ Failed(SequenceOf(i)[r])
                        /\ allSummaries[i].TotalTests = config.TestCount
                        /\ allSummaries[i].FailCount = 1
                        /\ allSummaries[i].SuccessCount = config.TestCount - 1
                        /\ \A j \in DOMAIN clients \ {i} :
                              /\ SequenceOf(j) = ProbesOf(j)
                              /\ allSummaries[j] =
                                    calculateSummary(clients[j].Endpoint,
                                                     ProbesOf(j))

\* C5: when every probe returns, the campaign finishes all N rounds and
\* yields one summary per endpoint of the campaign, whatever probes fail.
CampaignDone ==
    /\ pc = "done"
    /\ DOMAIN results = 1..config.TestCount
    /\ \A r \in DOMAIN results : \A i \in DOMAIN results[r] : Written(r, i)
    /\ Len(allSummaries) = Len(clients)
    /\ \A i \in DOMAIN clients :
          /\ allSummaries[i].EndpointName = clients[i].Endpoint.Name
          /\ allSummaries[i].Protocol =
                ProtocolString(clients[i].Endpoint.Protocol)

C5_CampaignCompletes == <>CampaignDone

C5_Witness ==
    /\ CampaignDone
    /\ config.TestCount = 2
    /\ Len(clients) = 2
    /\ Failed(results[1][1].Result)
    /\ Failed(results[2][2].Result)
    /\ ~Failed(results[2][1].Result)

----------------------------------------------------------------------------
(* The probe, the origin time and the reports *)

\* The probe ends in a transport-level failure
ProbeFails(net) == net.reqErr \/ net.doErr

\* The well-formed header values of the probes and the origin time each
\* states, in microseconds
WellFormedHeaders ==
    {<<"0">>, <<"0", ".", "0", "0", "1", "2", "5">>,
     <<"0", ".", "0", "0", "2", "s">>, <<"9">>,
     <<"-", "0", ".", "0", "0", "1">>,
     <<"0", ".", "0", "0", "1", " ", "s">>}

OriginMicros(header) ==
    CASE header = <<"0">> -> 0
      [] header = <<"0", ".", "0", "0", "1", "2", "5">> -> 1250
      [] header = <<"0", ".", "0", "0", "2", "s">> -> 2000
      [] header = <<"9">> -> 9000000
      [] header = <<"-", "0", ".", "0", "0", "1">> -> 0 - 1000
      [] header = <<"0", ".", "0", "0", "1", " ", "s">> -> 1000

\* The cells of the CDN-latency statistics and of the origin-time mean in
\* each report
ConsoleCDNCells ==
    {"cdnLatencyAvg", "cdnP50", "cdnP90", "cdnP99", "xResponseAvg"}

HTMLCDNCells ==
    {"CDNLatencyAvg", "CDNLatencyP50", "CDNLatencyP90", "CDNLatencyP95",
     "CDNLatencyP99", "XResponseTimeAvg"}

JSONCDNFields ==
    {"CDNLatencyAvg", "CDNLatencyMin", "CDNLatencyMax", "CDNLatencyP50",
     "CDNLatencyP90", "CDNLatencyP95", "CDNLatencyP99", "XResponseTimeAvg"}

NoSampleCarriesOrigin == \A k \in DOMAIN mNets : mNets[k].header = <<>>

AbsentInConsole ==
    \A f \in ConsoleCDNCells : mReport.console[f].kind # "number"

AbsentInHTML ==
    mReport.html # NotExported =>
        \A f \in HTMLCDNCells : mReport.html[f].kind # "number"

AbsentInJSON ==
    mReport.json # NotExported =>
        \A f \in JSONCDNFields : mReport.json[f].kind # "number"

\* C11: for an endpoint none of whose samples carried the origin time
\* header, HasCDN is false and the console summary table, the HTML summary
\* table and the JSON report all present the CDN-latency statistics and the
\* origin-time mean as absent, never as a number.
C11_AbsentInEveryReport ==
    (mReport.written /\ NoSampleCarriesOrigin) =>
        /\ mSummary.summary.HasCDN = FALSE
        /\ AbsentInConsole
        /\ AbsentInHTML
        /\ AbsentInJSON

\* The result of a probe without the round it was made in
Unnumbered(r) == [r EXCEPT !.Index = 0]

\* C12: two successful probes that differ only in that one response carries
\* the origin time header with value 0 and the other carries none, or an
\* unparseable one, return samples that differ in at least one field.
C12_OriginPresenceObservable ==
    \A i, j \in DOMAIN mResults :
        (/\ ~ProbeFails(mNets[i])
         /\ mNets[i].header = <<"0">>
         /\ mNets[j].header \in {<<>>, <<"a", "b", "c">>}
         /\ mNets[j] = [mNets[i] EXCEPT !.header = mNets[j].header])
        => Unnumbered(mResults[i]) # Unnumbered(mResults[j])

\* C13: for every successful sample whose response carried a parseable
\* origin time header, CDNLatency is the TTFB in milliseconds, taken at
\* microsecond resolution, minus XResponseTime in milliseconds, and
\* XResponseTime is the header's value.
C13_CDNLatencyIsDifference ==
    \A k \in DOMAIN mResults :
        (~ProbeFails(mNets[k]) /\ mNets[k].header \in WellFormedHeaders) =>
            /\ mResults[k].TTFB = mNets[k].ttfb
            /\ mResults[k].XResponseTime = OriginMicros(mNets[k].header)
            /\ mResults[k].CDNLatency =
                  (mNets[k].ttfb \div 1000) - OriginMicros(mNets[k].header)

C13_Witness ==
    /\ Len(mResults) = 2
    /\ mNets[2] = FractionOrigin
    /\ mResults[2].XResponseTime = 1250
    /\ mResults[2].CDNLatency = 2000

\* C14: for every successful sample, whatever the origin time header holds
\* (more than the TTFB, a negative value, zero, nothing),
\* 0 <= CDNLatency <= TTFB in milliseconds.
C14_CDNLatencyWithinTTFB ==
    \A k \in DOMAIN mResults :
        ~ProbeFails(mNets[k]) =>
            /\ 0 <= mResults[k].CDNLatency
            /\ mResults[k].CDNLatency <= mNets[k].ttfb \div 1000

\* The CDN-latency statistics and the origin-time mean of a summary
CDNStats(s) ==
    <<s.CDNLatencyAvg, s.CDNLatencyMin, s.CDNLatencyMax, s.CDNLatencyP50,
      s.CDNLatencyP90, s.CDNLatencyP95, s.CDNLatencyP99, s.XResponseTimeAvg>>

\* The samples without the successful ones that carry no origin time
WithoutOriginless ==
    SelectSeq(mResults,
              LAMBDA r : ProbeFails(mNets[r.Index])
                         \/ mNets[r.Index].header # <<>>)

\* C15: for an endpoint with successful samples with and without origin
\* time, the CDN-latency statistics and XResponseTimeAvg are computed over
\* the samples that carry origin time only: the successful samples without
\* origin time change none of them.
C15_OriginlessOmitted ==
    (/\ mSummary.called
     /\ \E k \in DOMAIN mNets :
            /\ ~ProbeFails(mNets[k])
            /\ mNets[k].header \in WellFormedHeaders
            /\ OriginMicros(mNets[k].header) > 0) =>
        CDNStats(mSummary.summary) =
            CDNStats(calculateSummary(EndpointA1, WithoutOriginless))

\* C16: every failing probe returns a sample with a non-empty Error and zero
\* TTFB, XResponseTime, CDNLatency and StatusCode, also when the first
\* response byte had been seen before the failure; the failure is a sample
\* like any other and the later probes and the summary go on with it.
C16_FailedProbeIsZeroSample ==
    /\ \A k \in DOMAIN mResults :
          ProbeFails(mNets[k]) =>
              /\ mResults[k].Error # ""
              /\ mResults[k].TTFB = 0
              /\ mResults[k].XResponseTime = 0
              /\ mResults[k].CDNLatency = 0
              /\ mResults[k].StatusCode = 0
    /\ mSummary.called =>
          /\ Len(mResults) = Len(mNets)
          /\ mSummary.summary.TotalTests = Len(mNets)
          /\ mSummary.summary.FailCount =
                Cardinality({k \in DOMAIN mNets : ProbeFails(mNets[k])})

C16_Witness ==
    /\ mSummary.called
    /\ Len(mNets) = 2
    /\ mNets[1] = FailedAfterFirstByte
    /\ mNets[1].ttfb > 0
    /\ mResults[1].Error # "" /\ mResults[1].TTFB = 0
    /\ ~Failed(mResults[2])
    /\ mSummary.summary.FailCount = 1

\* The TTFB of the first k probes that did not fail, in microseconds
RECURSIVE TtfbSumOfSuccesses(_)
TtfbSumOfSuccesses(k) ==
    IF k = 0 THEN 0
    ELSE TtfbSumOfSuccesses(k - 1)
         + (IF ProbeFails(mNets[k]) THEN 0 ELSE mNets[k].ttfb \div 1000)

\* C17: a response with a non-2xx status gives a sample with an empty Error
\* and that StatusCode, and the summary counts it in SuccessCount and takes
\* its TTFB into the statistics; a sample is failed only when the transport
\* fails.
C17_StatusIsNotAnError ==
    /\ \A k \in DOMAIN mResults :
          /\ Failed(mResults[k]) <=> ProbeFails(mNets[k])
          /\ ~ProbeFails(mNets[k]) =>
                mResults[k].StatusCode = mNets[k].status
    /\ mSummary.called =>
          LET ok == {k \in DOMAIN mNets : ~ProbeFails(mNets[k])}
              s == mSummary.summary
          IN  /\ s.SuccessCount = Cardinality(ok)
              /\ \A k \in ok :
                    /\ s.TTFBMin <= mNets[k].ttfb \div 1000
                    /\ mNets[k].ttfb \div 1000 <= s.TTFBMax
              /\ ok # {} =>
                    s.TTFBAvg =
                        TtfbSumOfSuccesses(Len(mNets)) \div Cardinality(ok)

C17_Witness ==
    /\ mSummary.called
    /\ mNets = <<NotFound, PlainOK>>
    /\ mResults[1].StatusCode = 404 /\ mResults[1].Error = ""
    /\ mSummary.summary.SuccessCount = 2
    /\ mSummary.summary.TTFBMax = 4000
    /\ mSummary.summary.TTFBAvg = 3500

\* C18: a malformed origin time header ("abc") does not fail the sample: the
\* sample keeps an empty Error, its TTFB and its status code, and its origin
\* time is absent, which is not what a header of zero gives.
C18_MalformedIsAbsent ==
    \A k \in DOMAIN mResults :
        (~ProbeFails(mNets[k]) /\ mNets[k].header = <<"a", "b", "c">>) =>
            /\ mResults[k].Error = ""
            /\ mResults[k].TTFB = mNets[k].ttfb
            /\ mResults[k].StatusCode = mNets[k].status
            /\ Unnumbered(mResults[k]) #
                  measureRequest([mNets[k] EXCEPT !.header = <<"0">>])

----------------------------------------------------------------------------
(* The endpoints that take part in the campaign *)

\* The protocol texts that name one of the three protocols
KnownSelectors ==
    {"HTTP/1.1", "HTTP/2", "http2", "h2", "HTTP/3", "http3", "h3"}

\* The ip texts of the configuration files that are IP addresses
IPLiterals == {"10.0.0.1", "10.0.0.2", "10.0.0.3", "10.0.0.4"}

\* The i-th endpoint of the file has no handle, no probe, no sample sequence
\* and no summary
Excluded(i) ==
    /\ \A j \in DOMAIN clients : clients[j].Client.ptr # i
    /\ \A g \in goroutines : g.t.Client.ptr # i
    /\ Key(config.Endpoints[i]) \notin DOMAIN endpointResults
    /\ \A j \in DOMAIN allSummaries :
          allSummaries[j].EndpointName # yc.Endpoints[i].Name

\* The i-th endpoint of the file has a handle and a probe of it has returned
\* in every round
ProbedEveryRound(i) ==
    \E j \in DOMAIN clients :
        /\ clients[j].Client.ptr = i
        /\ \A r \in 1..config.TestCount :
              r \in DOMAIN results /\ Written(r, j)

\* C19: an endpoint whose protocol selector is unsupported gets no
\* transport handle and is excluded from the campaign (no probe, no sample
\* sequence, no summary), and the other endpoints are probed in all N
\* rounds.
C19_UnsupportedSelectorExcluded ==
    \A i \in DOMAIN yc.Endpoints :
        IF yc.Endpoints[i].Protocol \notin KnownSelectors
        THEN Excluded(i)
        ELSE pc = "done" => ProbedEveryRound(i)

\* C20: for every protocol, no transport handle is built for an override
\* address that is no IP address (the construction fails with an error), so
\* no probe goes through such a handle.
C20_BadAddressFailsConstruction ==
    /\ \A j \in DOMAIN clients : clients[j].Client.DialHost \in IPLiterals
    /\ \A g \in goroutines : g.t.Client.DialHost \in IPLiterals

----------------------------------------------------------------------------
(* Handles, pauses, slots and the log *)

\* C22: each endpoint of the campaign has exactly one transport handle,
\* created before round 1; the probe of the endpoint uses that handle in
\* every round, and no handle is created, replaced or shared between two
\* endpoints during the campaign.
C22_OneHandlePerEndpoint ==
    /\ [](\A i, j \in DOMAIN clients :
            clients[i].Client.ptr = clients[j].Client.ptr => i = j)
    /\ [](\A i \in DOMAIN tasks :
            /\ tasks[i].Endpoint = clients[i].Endpoint
            /\ tasks[i].Client = clients[i].Client)
    /\ [](\A g \in goroutines :
            /\ g.t.Endpoint = clients[g.idx].Endpoint
            /\ g.t.Client = clients[g.idx].Client)
    /\ [](round >= 1 => Len(clients) = Len(config.Endpoints))
    /\ [][round >= 1 => clients' = clients]_vars

C22_Witness ==
    /\ round = 2
    /\ Len(clients) = 2
    /\ clients[1].Client.ptr # clients[2].Client.ptr
    /\ \E g \in goroutines :
          g.round = 2 /\ g.idx = 2 /\ g.t.Client = clients[2].Client

\* The results of round r are in the sequences: the sequence of every
\* client holds the sample of its slot
Recorded(r) ==
    \A i \in DOMAIN clients :
        \E k \in DOMAIN SequenceOf(i) : SequenceOf(i)[k] = results[r][i].Result

\* C24: a campaign of N >= 1 rounds pauses exactly N - 1 times; each pause
\* comes after the results of round r < N are in the sequences and before
\* any probe of round r + 1 starts, and there is no pause after round N.
C24_PauseBetweenRounds ==
    /\ pc = "sleep" =>
          /\ round < config.TestCount
          /\ sleeps = round - 1
          /\ Recorded(round)
          /\ goroutines = {}
          /\ round + 1 \notin DOMAIN results
    /\ \A g \in goroutines : sleeps = g.round - 1
    /\ (pc = "done" /\ config.TestCount >= 1) =>
          sleeps = config.TestCount - 1

C24_Witness ==
    /\ pc = "done"
    /\ config.TestCount = 3
    /\ Len(clients) = 2
    /\ sleeps = 2

\* C25: in every round each worker writes exactly one result slot and no
\* two concurrent workers write the same slot; each endpoint's sample
\* sequence grows by exactly one sample per round, and the sequences are
\* modified only when no worker of any round is running.
C25_SingleWriterPerSlot ==
    /\ [](\A g, h \in goroutines :
            (g.round = h.round /\ g.idx = h.idx) => g = h)
    /\ [](\A g \in goroutines : ~Written(g.round, g.idx))
    /\ [][\A r \in DOMAIN results :
            Cardinality({i \in DOMAIN results[r] :
                            results'[r][i] # results[r][i]}) <= 1]_vars
    /\ [][pc = "collect" =>
            /\ goroutines = {}
            /\ \A i \in DOMAIN clients :
                  Len(endpointResults'[Key(clients[i].Endpoint)]) =
                      Len(endpointResults[Key(clients[i].Endpoint)]) + 1]_vars
    /\ [][pc \notin {"collect", "createClients"} =>
            endpointResults' = endpointResults]_vars

\* C26: every sample of the sequence aggregated and reported for an
\* endpoint comes from a probe through that endpoint's own handle, and two
\* configured endpoints never share a sample sequence, also when they have
\* the same display name and protocol but different IPs.
C26_SamplesOfOwnHandle ==
    /\ \A i, j \in DOMAIN clients :
          i # j => Key(clients[i].Endpoint) # Key(clients[j].Endpoint)
    /\ pc = "done" =>
          \A i \in DOMAIN clients :
              /\ SequenceOf(i) = ProbesOf(i)
              /\ allSummaries[i] =
                    calculateSummary(clients[i].Endpoint, ProbesOf(i))

\* The place of the header of round r in the log, each round writing a
\* header and one line per client
HeaderAt(r) == (r - 1) * (Len(clients) + 1) + 1

\* C27: the logger is written by the goroutine of main only: the header of
\* a round is logged before any worker of the round is launched and the
\* result lines only after the barrier, one per task in task order,
\* whatever order the workers finish in.
C27_LoggerOnlyInMain ==
    /\ [][log' # log => (pc' # pc /\ goroutines' = goroutines)]_vars
    /\ [](\A g \in goroutines :
            /\ Len(log) = HeaderAt(g.round)
            /\ log[Len(log)].kind = "round"
            /\ log[Len(log)].round = g.round)
    /\ [](\A r \in DOMAIN results :
            (r < round \/ pc \in {"collect", "sleep"}) =>
                /\ log[HeaderAt(r)].kind = "round"
                /\ \A i \in DOMAIN clients :
                      LET line == log[HeaderAt(r) + i]
                      IN  /\ line.kind # "round"
                          /\ line.Name = clients[i].Endpoint.Name
                          /\ line.Protocol =
                                ProtocolString(clients[i].Endpoint.Protocol)
                          /\ (line.kind = "error") <=>
                                Failed(results[r][i].Result))

C27_Witness ==
    /\ pc = "collect"
    /\ round = 2
    /\ yc.Endpoints = <<YamlA1, YamlB>>
    /\ Len(log) = 6
    /\ log[5].kind = "error" /\ log[5].Name = "A"
    /\ log[6].kind = "ok" /\ log[6].Name = "B"

----------------------------------------------------------------------------
(* Aggregating twice *)

----------------------------------------------------------------------------
(* Dials *)

\* The port the dial of a requested address has to use
PortToDial(addr) ==
    CASE addr = <<VirtualHost, ":", "443">> -> "443"
      [] addr = <<VirtualHost, ":", "8443">> -> "8443"
      [] addr = <<VirtualHost>> -> "443"

\* C21: for every protocol and every address the HTTP stack asks the handle
\* to dial, the connection is attempted only to the handle's configured IP,
\* with the port of the requested address or 443 when it has none, never to
\* an address resolved from the virtual hostname, and the Host header of
\* the request is the virtual hostname.
C21_ForcedIPDialing ==
    \A k \in DOMAIN dDials :
        /\ dDials[k].Host = dDomain
        /\ dDials[k].sent =>
              /\ dDials[k].remote.ip = dClient.DialHost
              /\ dDials[k].remote.port = PortToDial(dDials[k].addr)
              /\ dDials[k].remote.lookedUp # dDomain

\* C28: every local UDP socket a dial of the HTTP/3 transport opened is
\* owned by an established QUIC connection or closed when the dial
\* returns: after any number of failed dials no open socket is left
\* without a live connection.
C28_NoUDPSocketLeak ==
    \A s \in dSockets : s.open => s.conn

====
